---------------------------- MODULE Spec2Model ----------------------------
(***************************************************************************)
(* The lead concierge of components/LeadAgent.tsx: the reducer that owns   *)
(* the conversation (cursor, lead record, message log, status), the        *)
(* handlers that dispatch to it (handleSubmit, resetConversation), and the *)
(* render pass that recomputes the memoised insights and runs the          *)
(* persistence effect.                                                     *)
(*                                                                         *)
(* Texts are sequences of one-character strings, and fixed texts are       *)
(* sequences of one named token, so that trimming and concatenation are    *)
(* computed.  An optional value (a ?: field, an undefined argument) is a   *)
(* set: {} when absent and {v} when present.  Message ids (generateId, a   *)
(* random UUID) are not part of the model.                                 *)
(*                                                                         *)
(* lib/leadAgent (baseSteps, evaluateLead) is imported by the component    *)
(* and is not among the sources; its definitions here follow the written   *)
(* specification of the step definitions and of the scoring engine.        *)
(***************************************************************************)
EXTENDS Integers, Sequences, FiniteSets, TLC

VARIABLES
    state,      \* the reducer's state: stepIndex, lead, messages, status
    view,       \* the state of the last render, which the handlers close over
    queue,      \* actions dispatched and not yet reduced
    dirty,      \* TRUE when state was reduced since the last render
    leadFresh,  \* TRUE when state.lead is a new object since the last render
    insights,   \* the memoised evaluateLead(state.lead)
    stored,     \* localStorage["leadgen:leads"], newest first
    clock,      \* ticks of new Date() seen by upsertLeadInStorage
    pre,        \* history: the reducer's state when the last handler started
    last,       \* history: what the last handler did
    calls,      \* history: upsertLeadInStorage calls since the last RESET
    lastCall,   \* history: the arguments and fault of the last such call since then
    resets,     \* history: RESET actions reduced
    wins,       \* history: submits whose parse succeeded since the last RESET
    streak,     \* history: submits whose parse failed since the last success
    recomputed, \* history: TRUE when the last render recomputed the insights
    uncaught    \* history: TRUE when an exception escaped the effect

vars == <<state, view, queue, dirty, leadFresh, insights, stored, clock,
          pre, last, calls, lastCall, resets, wins, streak, recomputed,
          uncaught>>

---------------------------------------------------------------------------
(* Bounds of the model. *)

\* A handler that logs is not started on a log longer than this.
MaxLog == 13

\* RESET is dispatched at most this many times.
MaxResets == 1

\* The persistence calls followed on top of a history already stored.
MaxCalls == 3

---------------------------------------------------------------------------
(* Texts *)

Space == " "

DigitChars == <<"0", "1", "2", "3", "4", "5", "6", "7", "8", "9">>

Digits == { DigitChars[i] : i \in 1..10 }

DigitValue(c) == (CHOOSE i \in 1..10 : DigitChars[i] = c) - 1

Letters == {"a"}

\* The raw texts a user submits (typed, or a suggestion clicked).
Texts ==
    { <<>>, <<Space>>, <<Space, "a">>, <<"7">>, <<"7", "@", "7">> }

RECURSIVE TrimStart(_)
TrimStart(s) ==
    IF s # <<>> /\ Head(s) = Space THEN TrimStart(Tail(s)) ELSE s

RECURSIVE TrimEnd(_)
TrimEnd(s) ==
    IF s # <<>> /\ s[Len(s)] = Space
    THEN TrimEnd(SubSeq(s, 1, Len(s) - 1))
    ELSE s

\* String.prototype.trim
Trim(s) == TrimEnd(TrimStart(s))

HasLetter(s) == \E i \in 1..Len(s) : s[i] \in Letters

IsNumber(s) == s # <<>> /\ \A i \in 1..Len(s) : s[i] \in Digits

RECURSIVE NumberValue(_)
NumberValue(s) ==
    IF s = <<>> THEN 0
    ELSE 10 * NumberValue(SubSeq(s, 1, Len(s) - 1)) + DigitValue(s[Len(s)])

LooksLikeEmail(s) == \E i \in 2..(Len(s) - 1) : s[i] = "@"

---------------------------------------------------------------------------
(* Lead records: functions from the populated fields to their values. *)

EmptyLead == [f \in {} |-> 0]

\* { ...a, ...b }
\* The merge that keeps only the second record.
SpreadReplaces(a, b) == b

Spread(a, b) ==
    [f \in (DOMAIN a) \cup (DOMAIN b) |-> IF f \in DOMAIN b THEN b[f] ELSE a[f]]

Has(lead, f) == f \in DOMAIN lead

---------------------------------------------------------------------------
(* lib/leadAgent: the step definitions and the scoring engine. *)

Failure(retry) == [success |-> FALSE, retryMessage |-> retry]

Success(updates, followUp) ==
    [success |-> TRUE, updates |-> updates, followUp |-> followUp]

\* The numeric companion of a label: stored only when the text is a number.
Numeric(field, text) ==
    IF IsNumber(text) THEN (field :> NumberValue(text)) ELSE EmptyLead

\* The parse contract of each step: (raw text, current lead) -> Result.
parse(id, raw, lead) ==
    LET text == Trim(raw) IN
    IF text = <<>> THEN Failure(<<"retry:empty">>)
    ELSE CASE id = "company" ->
                IF HasLetter(text)
                THEN Success("companyName" :> text, {<<"followUp:company">>})
                ELSE Failure(<<"retry:company">>)
           [] id = "email" ->
                IF LooksLikeEmail(text)
                THEN Success("contactEmail" :> text, {})
                ELSE Failure(<<"retry:email">>)
           [] id = "timeline" ->
                Success(("timeline" :> text) @@ Numeric("timelineWeeks", text),
                        IF IsNumber(text) THEN {<<"followUp:timeline">>} ELSE {})

baseSteps ==
    << [id |-> "company", question |-> <<"question:company">>,
        helper |-> {<<"helper:company">>}, suggestions |-> {}],
       [id |-> "email", question |-> <<"question:email">>,
        helper |-> {}, suggestions |-> {<< <<"7", "@", "7">> >>}],
       [id |-> "timeline", question |-> <<"question:timeline">>,
        helper |-> {<<"helper:timeline">>},
        suggestions |-> {<< <<"7">>, <<"a">> >>}] >>

\* baseSteps.length
N == Len(baseSteps)

\* baseSteps[i] of the source (0-based): {} is undefined.
StepAt(i) == IF i \in 0..(N - 1) THEN {baseSteps[i + 1]} ELSE {}

Min(a, b) == IF a < b THEN a ELSE b

Max(a, b) == IF a > b THEN a ELSE b

\* evaluateLead(lead).score: independent signals, summed and clamped.
Score(lead) ==
    LET completeness ==
            5 * Cardinality({"industry", "primaryGoal", "painPoints", "techStack"}
                            \cap DOMAIN lead)
        budget == IF Has(lead, "budgetValue") THEN Min(30, lead["budgetValue"]) ELSE 0
        timeline ==
            IF Has(lead, "timelineWeeks") THEN Max(0, 25 - lead["timelineWeeks"]) ELSE 0
        contact == IF Has(lead, "contactEmail") THEN 15 ELSE 0
    IN  Max(0, Min(100, completeness + budget + timeline + contact))

evaluateLead(lead) == [score |-> Score(lead)]

---------------------------------------------------------------------------
(* components/LeadAgent.tsx: messages *)

\* if (x) on an optional string: present and not the empty string.
Truthy(opt) == \E x \in opt : x # <<>>

initialAgentMessage ==
    [sender |-> "agent", content |-> <<"greeting">>,
     suggestions |-> {<< <<"Sounds good!">>, <<"Let's do it">>,
                         <<"Can we skip ahead?">> >>},
     meta |-> {"info"}]

agentMessage(content, suggestions, meta) ==
    [sender |-> "agent", content |-> content, suggestions |-> suggestions,
     meta |-> meta]

userMessage(content) ==
    [sender |-> "user", content |-> content, suggestions |-> {}, meta |-> {}]

\* The question with its helper on a new line whatever the index.
questionForStepAlwaysHelper(step, index) ==
    [sender |-> "agent",
     content |-> step.question \o
                 (IF Truthy(step.helper)
                  THEN <<"\n">> \o (CHOOSE h \in step.helper : TRUE)
                  ELSE <<>>),
     suggestions |-> step.suggestions, meta |-> {"question"}]

\* The question without the step's suggestions.
questionForStepNoSuggestions(step, index) ==
    [sender |-> "agent",
     content |-> IF index = {} \/ index = {0}
                 THEN step.question
                 ELSE step.question \o
                      (IF Truthy(step.helper)
                       THEN <<"\n">> \o (CHOOSE h \in step.helper : TRUE)
                       ELSE <<>>),
     suggestions |-> {}, meta |-> {"question"}]

\* index is optional: {} when the caller passes none.
questionForStep(step, index) ==
    LET content ==
            IF index = {} \/ index = {0}
            THEN step.question
            ELSE step.question \o
                 (IF Truthy(step.helper)
                  THEN <<"\n">> \o (CHOOSE h \in step.helper : TRUE)
                  ELSE <<>>)
    IN  [sender |-> "agent", content |-> content,
         suggestions |-> step.suggestions, meta |-> {"question"}]

---------------------------------------------------------------------------
(* activeSuggestions *)

RECURSIVE Reverse(_)
Reverse(s) == IF s = <<>> THEN <<>> ELSE Reverse(Tail(s)) \o <<Head(s)>>

\* Array.prototype.find with (m) => m.sender === "agent": {} is undefined.
RECURSIVE FindAgent(_)
FindAgent(s) ==
    IF s = <<>> THEN {}
    ELSE IF Head(s).sender = "agent" THEN {Head(s)}
    ELSE FindAgent(Tail(s))

\* The suggestions of the last message of the log, whoever sent it.
activeSuggestionsOfLastMessage(messages) ==
    IF messages = <<>> THEN <<>>
    ELSE LET m == messages[Len(messages)] IN
         IF m.suggestions = {} THEN <<>> ELSE CHOOSE x \in m.suggestions : TRUE

\* lastAgentMessage?.suggestions ?? []
activeSuggestions(messages) ==
    LET lastAgentMessage == FindAgent(Reverse(messages)) IN
    IF lastAgentMessage = {} THEN <<>>
    ELSE LET m == CHOOSE x \in lastAgentMessage : TRUE IN
         IF m.suggestions = {} THEN <<>> ELSE CHOOSE x \in m.suggestions : TRUE

---------------------------------------------------------------------------
(* renderSummary *)

RECURSIVE DigitsOf(_)
DigitsOf(n) ==
    IF n < 10 THEN <<DigitChars[n + 1]>>
    ELSE DigitsOf(n \div 10) \o <<DigitChars[(n % 10) + 1]>>

RECURSIVE Grouped(_)
Grouped(d) ==
    IF Len(d) <= 3 THEN d
    ELSE Grouped(SubSeq(d, 1, Len(d) - 3)) \o <<",">> \o SubSeq(d, Len(d) - 2, Len(d))

\* Number.prototype.toLocaleString() of a non-negative integer (en-US).
ToLocaleString(n) == Grouped(DigitsOf(n))

\* A field used as a condition: present, and not "" (a label) or 0 (a number).
TruthyText(lead, f) == Has(lead, f) /\ lead[f] # <<>>

TruthyNumber(lead, f) == Has(lead, f) /\ lead[f] # 0

RECURSIVE JoinLines(_)
JoinLines(lines) ==
    IF lines = <<>> THEN <<>>
    ELSE IF Len(lines) = 1 THEN Head(lines)
    ELSE Head(lines) \o <<"\n">> \o JoinLines(Tail(lines))

\* The lines of the recap, in order; an absent line is {} and is filtered out.
SummaryLines(lead) ==
    << IF TruthyText(lead, "companyName")
       THEN {<<"* ">> \o lead["companyName"] \o <<" in ">> \o
             (IF Has(lead, "industry") THEN lead["industry"]
              ELSE <<"unknown vertical">>)}
       ELSE {},
       IF TruthyText(lead, "primaryGoal")
       THEN {<<"* Goal: ">> \o lead["primaryGoal"]} ELSE {},
       IF TruthyText(lead, "painPoints")
       THEN {<<"* Challenge: ">> \o lead["painPoints"]} ELSE {},
       IF TruthyText(lead, "budgetRange")
       THEN {<<"* Budget comfort zone: ">> \o lead["budgetRange"]}
       ELSE IF TruthyNumber(lead, "budgetValue")
            THEN {<<"* Budget comfort zone: ~$">> \o
                  ToLocaleString(lead["budgetValue"])}
            ELSE {},
       IF TruthyText(lead, "timeline")
       THEN {<<"* Timeline: ">> \o lead["timeline"]} ELSE {},
       IF TruthyText(lead, "contactName")
       THEN {<<"* Contact: ">> \o lead["contactName"] \o <<" (">> \o
             (IF Has(lead, "contactEmail") THEN lead["contactEmail"]
              ELSE <<"email pending">>) \o <<")">>}
       ELSE {} >>

\* The filter left out: an absent line is joined as the text "undefined".
RECURSIVE PresentKeepsAbsent(_)
PresentKeepsAbsent(opts) ==
    IF opts = <<>> THEN <<>>
    ELSE <<IF Head(opts) = {} THEN <<"undefined">> ELSE CHOOSE x \in Head(opts) : TRUE>>
         \o PresentKeepsAbsent(Tail(opts))

RECURSIVE Present(_)
Present(opts) ==
    IF opts = <<>> THEN <<>>
    ELSE (IF Head(opts) = {} THEN <<>> ELSE <<CHOOSE x \in Head(opts) : TRUE>>)
         \o Present(Tail(opts))

renderSummary(lead) ==
    <<"Quick recap:", "\n">> \o JoinLines(Present(SummaryLines(lead)))

---------------------------------------------------------------------------
(* The reducer *)

\* The state the useReducer initializer builds.
InitialState ==
    [stepIndex |-> 0, lead |-> EmptyLead,
     messages |-> <<initialAgentMessage, questionForStep(baseSteps[1], {})>>,
     status |-> "collecting"]

ReduceInit(s) ==
    [stepIndex |-> 0, lead |-> EmptyLead,
     messages |-> <<initialAgentMessage, questionForStep(baseSteps[1], {})>>,
     status |-> "collecting"]

\* PUSH_MESSAGE that puts the message at the head of the log.
ReducePushMessagePrepends(s, a) ==
    [s EXCEPT !.messages = <<a.payload>> \o s.messages]

ReducePushMessage(s, a) ==
    [s EXCEPT !.messages = Append(s.messages, a.payload)]

\* BULK_MESSAGES that replaces the log by its payload.
ReduceBulkMessagesReplaces(s, a) ==
    [s EXCEPT !.messages = a.payload]

ReduceBulkMessages(s, a) ==
    [s EXCEPT !.messages = s.messages \o a.payload]

\* ADVANCE that asks the next question before it logs the follow-up.
ReduceAdvanceQuestionFirst(s, a) ==
    LET nextStepIndex == s.stepIndex + 1
        followUpMessages ==
            IF Truthy(a.followUp)
            THEN <<agentMessage(CHOOSE f \in a.followUp : TRUE, {}, {})>>
            ELSE <<>>
        nextStep == StepAt(nextStepIndex)
        question ==
            IF nextStep = {} THEN <<>>
            ELSE <<questionForStep(CHOOSE x \in nextStep : TRUE, {nextStepIndex})>>
    IN  [s EXCEPT !.lead = Spread(s.lead, a.leadUpdates),
                  !.messages = s.messages \o question \o followUpMessages,
                  !.stepIndex = nextStepIndex]

\* ADVANCE whose cursor starts again at 0 after the last step.
ReduceAdvanceWraps(s, a) ==
    LET nextStepIndex == (s.stepIndex + 1) % N
        followUpMessages ==
            IF Truthy(a.followUp)
            THEN <<agentMessage(CHOOSE f \in a.followUp : TRUE, {}, {})>>
            ELSE <<>>
        nextStep == StepAt(s.stepIndex + 1)
        question ==
            IF nextStep = {} THEN <<>>
            ELSE <<questionForStep(CHOOSE x \in nextStep : TRUE, {nextStepIndex})>>
    IN  [s EXCEPT !.lead = Spread(s.lead, a.leadUpdates),
                  !.messages = s.messages \o followUpMessages \o question,
                  !.stepIndex = nextStepIndex]

\* ADVANCE that moves the cursor and leaves the lead as it was.
ReduceAdvanceDropsUpdates(s, a) ==
    LET nextStepIndex == s.stepIndex + 1
        followUpMessages ==
            IF Truthy(a.followUp)
            THEN <<agentMessage(CHOOSE f \in a.followUp : TRUE, {}, {})>>
            ELSE <<>>
        nextStep == StepAt(nextStepIndex)
        question ==
            IF nextStep = {} THEN <<>>
            ELSE <<questionForStep(CHOOSE x \in nextStep : TRUE, {nextStepIndex})>>
    IN  [s EXCEPT !.messages = s.messages \o followUpMessages \o question,
                  !.stepIndex = nextStepIndex]

ReduceAdvance(s, a) ==
    LET nextLead == Spread(s.lead, a.leadUpdates)
        nextStepIndex == s.stepIndex + 1
        followUpMessages ==
            IF Truthy(a.followUp)
            THEN <<agentMessage(CHOOSE f \in a.followUp : TRUE, {}, {})>>
            ELSE <<>>
        nextStep == StepAt(nextStepIndex)
    IN  IF nextStep = {}
        THEN [s EXCEPT !.lead = nextLead,
                       !.messages = s.messages \o followUpMessages,
                       !.stepIndex = nextStepIndex]
        ELSE [s EXCEPT !.lead = nextLead,
                       !.messages =
                           s.messages \o followUpMessages \o
                           <<questionForStep(CHOOSE x \in nextStep : TRUE,
                                             {nextStepIndex})>>,
                       !.stepIndex = nextStepIndex]

\* RETRY that logs the retry text and does not ask the question again.
ReduceRetryNoQuestion(s, a) ==
    [s EXCEPT !.messages = Append(s.messages, agentMessage(a.message, {}, {"info"}))]

\* RETRY that also moves the cursor past the step.
ReduceRetrySkips(s, a) ==
    [s EXCEPT !.messages =
                  s.messages \o
                  <<agentMessage(a.message, {}, {"info"}),
                    questionForStep(CHOOSE x \in StepAt(s.stepIndex) : TRUE,
                                    {s.stepIndex})>>,
              !.stepIndex = s.stepIndex + 1]

\* baseSteps[state.stepIndex] is read without a check: RETRY is dispatched
\* only by a handler that found the step of its own snapshot.
ReduceRetry(s, a) ==
    [s EXCEPT !.messages =
        s.messages \o
        <<agentMessage(a.message, {}, {"info"}),
          questionForStep(CHOOSE x \in StepAt(s.stepIndex) : TRUE, {s.stepIndex})>>]

\* COMPLETE that sets the status and drops its follow-up.
ReduceCompleteSilent(s, a) == [s EXCEPT !.status = "complete"]

\* COMPLETE that logs its follow-up and forgets the status.
ReduceCompleteKeepsStatus(s, a) ==
    [s EXCEPT !.messages =
        s.messages \o
        (IF Truthy(a.followUp)
         THEN <<agentMessage(CHOOSE f \in a.followUp : TRUE, {}, {})>>
         ELSE <<>>)]

ReduceComplete(s, a) ==
    LET followUpMessages ==
            IF Truthy(a.followUp)
            THEN <<agentMessage(CHOOSE f \in a.followUp : TRUE, {}, {})>>
            ELSE <<>>
    IN  [s EXCEPT !.status = "complete",
                  !.messages = s.messages \o followUpMessages]

\* RESET written as an update of the old state that keeps the lead.
ReduceResetKeepsLead(s) ==
    [s EXCEPT !.stepIndex = 0,
              !.messages = <<initialAgentMessage, questionForStep(baseSteps[1], {})>>,
              !.status = "collecting"]

ReduceReset(s) ==
    [stepIndex |-> 0, lead |-> EmptyLead,
     messages |-> <<initialAgentMessage, questionForStep(baseSteps[1], {})>>,
     status |-> "collecting"]

reducer(s, a) ==
    CASE a.type = "INIT" -> ReduceInit(s)
      [] a.type = "PUSH_MESSAGE" -> ReducePushMessage(s, a)
      [] a.type = "BULK_MESSAGES" -> ReduceBulkMessages(s, a)
      [] a.type = "ADVANCE" -> ReduceAdvance(s, a)
      [] a.type = "RETRY" -> ReduceRetry(s, a)
      [] a.type = "COMPLETE" -> ReduceComplete(s, a)
      [] a.type = "RESET" -> ReduceReset(s)
      [] OTHER -> s

\* The actions that put a new object in state.lead.
ReplacesLead(a) == a.type \in {"INIT", "ADVANCE", "RESET"}

---------------------------------------------------------------------------
(* upsertLeadInStorage *)

HistoryCap == 25

\* slice(-n): the last n elements in place of the first n.
TakeLast(s, n) == SubSeq(s, Len(s) - Min(n, Len(s)) + 1, Len(s))

Take(s, n) == SubSeq(s, 1, Min(n, Len(s)))

\* Where the body of the try block may throw; "none" is a call that succeeds.
Faults == {"none", "read", "parse", "write", "dispatch"}

\* The call without its try/catch: a fault leaves the function as an exception.
upsertLeadInStorageNoCatch(existing, lead, score, now, fault) ==
    LET payload == [lead |-> lead, score |-> score, storedAt |-> now]
        updated == Take(<<payload>> \o existing, HistoryCap)
    IN  [stored |-> IF fault \in {"none", "dispatch"} THEN updated ELSE existing,
         notified |-> fault = "none",
         thrown |-> fault # "none"]

\* The call's effect: the stored list after it, whether the event reached the
\* listeners, and whether an exception left the function.
upsertLeadInStorage(existing, lead, score, now, fault) ==
    LET payload == [lead |-> lead, score |-> score, storedAt |-> now]
        updated == Take(<<payload>> \o existing, HistoryCap)
    IN  [stored |-> IF fault \in {"none", "dispatch"} THEN updated ELSE existing,
         notified |-> fault = "none",
         thrown |-> FALSE]

---------------------------------------------------------------------------
(* handleSubmit and resetConversation *)

Acknowledgement == <<"Appreciate the extra context. Noted for the handoff.">>

ClosingFollowUp ==
    <<"That's everything I need. Here's a quick snapshot of the opportunity.">>

ClosingPrompt == <<"Need anything else captured? Just type it in.">>

\* The handler without its early return on a blank text.
IsBlankNever(trimmed) == FALSE

\* if (!trimmed) return;
IsBlank(trimmed) == trimmed = <<>>

\* state.stepIndex + 1 >= baseSteps.length
\* The completion test one step early.
WillCompleteEarly(v) == v.stepIndex + 2 >= N

WillComplete(v) == v.stepIndex + 1 >= N

\* What one call of handleSubmit(value) on the snapshot v does: the actions
\* it dispatches, in order, whether it ran the parse contract, which return
\* it left by, and the record it rendered the summary from, if it did.
handleSubmit(v, value) ==
    LET trimmed == Trim(value)
        push == [type |-> "PUSH_MESSAGE", payload |-> userMessage(trimmed)]
    IN  IF IsBlank(trimmed)
        THEN [dispatched |-> <<>>, parsed |-> FALSE, outcome |-> "ignored",
              summaryOf |-> {}]
        ELSE IF v.status = "complete"
        THEN [dispatched |->
                  <<push,
                    [type |-> "BULK_MESSAGES",
                     payload |-> <<agentMessage(Acknowledgement, {}, {"info"})>>]>>,
              parsed |-> FALSE, outcome |-> "acknowledged", summaryOf |-> {}]
        ELSE IF StepAt(v.stepIndex) = {}
        THEN [dispatched |-> <<push>>, parsed |-> FALSE, outcome |-> "nostep",
              summaryOf |-> {}]
        ELSE
        LET currentStep == CHOOSE x \in StepAt(v.stepIndex) : TRUE
            result == parse(currentStep.id, trimmed, v.lead)
        IN  IF ~result.success
            THEN [dispatched |->
                      <<push, [type |-> "RETRY", message |-> result.retryMessage]>>,
                  parsed |-> TRUE, outcome |-> "retry", summaryOf |-> {}]
            ELSE
            LET nextLead == Spread(v.lead, result.updates)
                willComplete == WillComplete(v)
                advance == [type |-> "ADVANCE", leadUpdates |-> result.updates,
                            followUp |-> result.followUp]
            IN  IF willComplete
                THEN [dispatched |->
                          <<push, advance,
                            [type |-> "COMPLETE", followUp |-> {ClosingFollowUp}],
                            [type |-> "BULK_MESSAGES",
                             payload |->
                                 <<agentMessage(renderSummary(nextLead), {}, {"summary"}),
                                   agentMessage(ClosingPrompt, {}, {})>>]>>,
                      parsed |-> TRUE, outcome |-> "completed",
                      summaryOf |-> {nextLead}]
                ELSE [dispatched |-> <<push, advance>>,
                      parsed |-> TRUE, outcome |-> "advanced", summaryOf |-> {}]

resetConversation == <<[type |-> "RESET"]>>

---------------------------------------------------------------------------
(* The state machine *)

\* Every dispatched action is reduced and the result is rendered.
Idle == queue = <<>> /\ ~dirty

NoCall == {}

\* The hooks and the history around a conversation that has just started.
InitRest ==
    /\ queue = <<>>
    /\ dirty = FALSE
    /\ leadFresh = FALSE
    /\ insights = evaluateLead(EmptyLead)
    /\ stored = <<>>
    /\ clock = 0
    /\ pre = InitialState
    /\ last = [op |-> "mount", value |-> <<>>, parsed |-> FALSE,
               outcome |-> "mounted", summaryOf |-> {}]
    /\ calls = 0
    /\ lastCall = NoCall
    /\ resets = 0
    /\ wins = 0
    /\ streak = 0
    /\ recomputed = TRUE
    /\ uncaught = FALSE

Init ==
    /\ state = InitialState
    /\ view = InitialState
    /\ InitRest

\* The user sends a text: the form's submit or a click on a suggestion.
Submit ==
    /\ Idle
    /\ ~uncaught
    /\ Len(state.messages) <= MaxLog
    /\ \E value \in Texts :
          LET h == handleSubmit(view, value) IN
          /\ queue' = queue \o h.dispatched
          /\ last' = [op |-> "submit", value |-> value, parsed |-> h.parsed,
                      outcome |-> h.outcome, summaryOf |-> h.summaryOf]
          /\ wins' = IF h.outcome \in {"advanced", "completed"}
                     THEN wins + 1 ELSE wins
          /\ streak' = CASE h.outcome = "retry" -> streak + 1
                         [] h.outcome \in {"advanced", "completed"} -> 0
                         [] OTHER -> streak
    /\ pre' = state
    /\ UNCHANGED <<state, view, dirty, leadFresh, insights, stored, clock,
                   calls, lastCall, resets, recomputed, uncaught>>

\* The user clicks "Restart flow".
Reset ==
    /\ Idle
    /\ ~uncaught
    /\ resets < MaxResets
    /\ queue' = queue \o resetConversation
    /\ last' = [op |-> "reset", value |-> <<>>, parsed |-> FALSE,
                outcome |-> "reset", summaryOf |-> {}]
    /\ pre' = state
    /\ UNCHANGED <<state, view, dirty, leadFresh, insights, stored, clock,
                   calls, lastCall, resets, wins, streak, recomputed, uncaught>>

\* React reduces the next dispatched action.
Reduce ==
    /\ queue # <<>>
    /\ LET a == Head(queue) IN
        /\ state' = reducer(state, a)
        /\ leadFresh' = (leadFresh \/ ReplacesLead(a))
        /\ resets' = IF a.type = "RESET" THEN resets + 1 ELSE resets
        /\ calls' = IF a.type = "RESET" THEN 0 ELSE calls
        /\ lastCall' = IF a.type = "RESET" THEN NoCall ELSE lastCall
        /\ wins' = IF a.type = "RESET" THEN 0 ELSE wins
        /\ streak' = IF a.type = "RESET" THEN 0 ELSE streak
    /\ queue' = Tail(queue)
    /\ dirty' = TRUE
    /\ UNCHANGED <<view, insights, stored, clock, pre, last, recomputed, uncaught>>

\* useMemo(() => evaluateLead(state.lead), [state.lead])
Memo(old, lead, fresh) == IF fresh THEN evaluateLead(lead) ELSE old

\* The effect without its dependency list: it runs after every render.
EffectRunsAlways(oldScore, newScore, fresh, oldStatus, newStatus) == TRUE

\* The effect's dependencies [insights.score, state.lead, state.status]
\* against those of the previous render.
EffectRuns(oldScore, newScore, fresh, oldStatus, newStatus) ==
    oldScore # newScore \/ fresh \/ oldStatus # newStatus

\* What is left of the conversation when an exception leaves an effect: React
\* unmounts the tree, and nothing is shown or handled any more.
Unmounted ==
    [stepIndex |-> 0, lead |-> EmptyLead, messages |-> <<>>, status |-> "collecting"]

\* React renders the reduced state and then runs the effects of the render.
Render ==
    /\ queue = <<>>
    /\ dirty
    /\ dirty' = FALSE
    /\ leadFresh' = FALSE
    /\ recomputed' = leadFresh
    /\ LET now == Memo(insights, state.lead, leadFresh) IN
        /\ insights' = now
        /\ IF /\ EffectRuns(insights.score, now.score, leadFresh,
                             view.status, state.status)
              /\ state.status = "complete"
           THEN \E fault \in Faults :
                  LET r == upsertLeadInStorage(stored, state.lead, now.score,
                                               clock + 1, fault)
                  IN  /\ stored' = r.stored
                      /\ uncaught' = r.thrown
                      /\ state' = IF r.thrown THEN Unmounted ELSE state
                      /\ view' = IF r.thrown THEN Unmounted ELSE state
                      /\ lastCall' = {[lead |-> state.lead, score |-> now.score,
                                       fault |-> fault, notified |-> r.notified]}
                      /\ clock' = clock + 1
                      /\ calls' = calls + 1
           ELSE /\ view' = state
                /\ UNCHANGED <<state, stored, uncaught, lastCall, clock, calls>>
    /\ UNCHANGED <<queue, pre, last, resets, wins, streak>>

Next == Submit \/ Reset \/ Reduce \/ Render

Spec == Init /\ [][Next]_vars

---------------------------------------------------------------------------
(* Two handlers on one snapshot. handleSubmit closes over the state of the *)
(* last render; nothing in it or in the form refuses a second call before  *)
(* the actions of the first are reduced and rendered.                      *)

\* The submits whose actions wait in the queue: each dispatches
\* PUSH_MESSAGE first.
Handlers(q) ==
    Cardinality({ k \in 1..Len(q) : q[k].type = "PUSH_MESSAGE" })

\* A second submit is handled before the first one's actions are reduced:
\* it reads the same snapshot and its actions queue up behind the first's.
SubmitStale ==
    /\ queue # <<>>
    /\ ~dirty
    /\ ~uncaught
    /\ Handlers(queue) = 1
    /\ Len(state.messages) <= MaxLog
    /\ \E value \in Texts :
          queue' = queue \o handleSubmit(view, value).dispatched
    /\ UNCHANGED <<state, view, dirty, leadFresh, insights, stored, clock, pre,
                   last, calls, lastCall, resets, wins, streak, recomputed,
                   uncaught>>

\* One conversation, without a restart.
NextRace == Submit \/ SubmitStale \/ Reduce \/ Render

SpecRace == Init /\ [][NextRace]_vars

---------------------------------------------------------------------------
(* renderSummary on its own: the records a finished conversation may hold, *)
(* each field absent or populated, and the recap the handler logs for them. *)

SummaryFields ==
    {"companyName", "industry", "primaryGoal", "painPoints", "budgetRange",
     "budgetValue", "timeline", "contactName", "contactEmail"}

SummaryValue(f) == IF f = "budgetValue" THEN 1500 ELSE <<"value:" \o f>>

SummaryLeads == { [f \in D |-> SummaryValue(f)] : D \in SUBSET SummaryFields }

InitSummary ==
    /\ \E l \in SummaryLeads :
          state = [stepIndex |-> N, lead |-> l, messages |-> <<>>,
                   status |-> "complete"]
    /\ view = state
    /\ InitRest

\* The BULK_MESSAGES of the completing submit, reduced.
Recap ==
    /\ state.messages = <<>>
    /\ state' = reducer(state,
                        [type |-> "BULK_MESSAGES",
                         payload |->
                             <<agentMessage(renderSummary(state.lead), {}, {"summary"}),
                               agentMessage(ClosingPrompt, {}, {})>>])
    /\ UNCHANGED <<view, queue, dirty, leadFresh, insights, stored, clock, pre,
                   last, calls, lastCall, resets, wins, streak, recomputed,
                   uncaught>>

SpecSummary == InitSummary /\ [][Recap]_vars

---------------------------------------------------------------------------
(* upsertLeadInStorage on its own: localStorage outlives the page, so a    *)
(* conversation starts on whatever earlier calls have left there, and each *)
(* completion adds one call.                                               *)

HistoryLeads ==
    { "companyName" :> <<"a">>,
      ("companyName" :> <<"a">>) @@ ("contactEmail" :> <<"7", "@", "7">>) }

\* What h successful calls at the times 1..h have left, while h is within the cap.
Stored(h) ==
    [k \in 1..h |->
        [lead |-> "companyName" :> <<"a">>, score |-> 0, storedAt |-> h - k + 1]]

InitHistory ==
    /\ state = InitialState
    /\ view = InitialState
    /\ queue = <<>>
    /\ dirty = FALSE
    /\ leadFresh = FALSE
    /\ insights = evaluateLead(EmptyLead)
    /\ \E h \in 0..HistoryCap : stored = Stored(h) /\ clock = h
    /\ pre = InitialState
    /\ last = [op |-> "mount", value |-> <<>>, parsed |-> FALSE,
               outcome |-> "mounted", summaryOf |-> {}]
    /\ calls = 0
    /\ lastCall = NoCall
    /\ resets = 0
    /\ wins = 0
    /\ streak = 0
    /\ recomputed = TRUE
    /\ uncaught = FALSE

\* The effect of a completion calls upsertLeadInStorage(state.lead, insights.score).
Persist ==
    /\ calls < MaxCalls
    /\ \E lead \in HistoryLeads, fault \in Faults :
          LET r == upsertLeadInStorage(stored, lead, Score(lead), clock + 1, fault)
          IN  /\ stored' = r.stored
              /\ lastCall' = {[lead |-> lead, score |-> Score(lead),
                               fault |-> fault, notified |-> r.notified]}
    /\ clock' = clock + 1
    /\ calls' = calls + 1
    /\ UNCHANGED <<state, view, queue, dirty, leadFresh, insights, pre, last,
                   resets, wins, streak, recomputed, uncaught>>

SpecHistory == InitHistory /\ [][Persist]_vars

---------------------------------------------------------------------------
(* What the last handler was given, read back from the history. *)

Trimmed == Trim(last.value)

\* The last handler was a submit and everything it dispatched is rendered.
AfterSubmit == Idle /\ last.op = "submit"

AfterReset == Idle /\ last.op = "reset"

\* The submit was not blank and found the conversation collecting.
SubmitWhileCollecting ==
    /\ AfterSubmit
    /\ Trimmed # <<>>
    /\ pre.status = "collecting"
    /\ StepAt(pre.stepIndex) # {}

SubmitWhileComplete ==
    /\ AfterSubmit
    /\ Trimmed # <<>>
    /\ pre.status = "complete"

PreStep == CHOOSE x \in StepAt(pre.stepIndex) : TRUE

\* What the active step's parse contract answers to the submitted text.
PreResult == parse(PreStep.id, Trimmed, pre.lead)

ParseFailed == SubmitWhileCollecting /\ ~PreResult.success

ParseSucceeded == SubmitWhileCollecting /\ PreResult.success

Logged == SubSeq(state.messages, Len(pre.messages) + 1, Len(state.messages))

LogExtends == Len(state.messages) >= Len(pre.messages)
                 /\ SubSeq(state.messages, 1, Len(pre.messages)) = pre.messages

IsRetryMessage(m) ==
    m.sender = "agent" /\ m.content \in {<<"retry:company">>, <<"retry:email">>}

---------------------------------------------------------------------------
(* C1: within one conversation the status becomes complete exactly at the *)
(* submit that is the N-th successful parse: it is collecting after fewer *)
(* than N successes, whatever failures are mixed in, and once complete it *)
(* stays complete under every further submit.                             *)
C1_CompleteAtNthSuccess ==
    /\ wins <= N
    /\ state.status = "complete" => wins = N
    /\ Idle => (state.status = "complete" <=> wins = N)
    /\ (AfterSubmit /\ pre.status = "complete") => state.status = "complete"
    /\ (AfterSubmit /\ pre.status = "collecting" /\ state.status = "complete")
           => (ParseSucceeded /\ wins = N /\ last.outcome = "completed")

C1_Witness ==
    /\ AfterSubmit
    /\ pre.status = "collecting"
    /\ state.status = "complete"
    /\ wins = N
    /\ \E i \in 1..Len(state.messages) : IsRetryMessage(state.messages[i])

(* C2: a submit whose parse fails leaves the cursor, the lead record and   *)
(* the status as they were, however many failures came before it, and the *)
(* cursor moves only on a submit whose parse succeeds, by one.             *)
C2_FailureChangesNothing ==
    /\ ParseFailed =>
           /\ state.stepIndex = pre.stepIndex
           /\ state.lead = pre.lead
           /\ state.status = pre.status
           /\ streak >= 1
    /\ (AfterSubmit /\ state.stepIndex # pre.stepIndex) =>
           /\ ParseSucceeded
           /\ state.stepIndex = pre.stepIndex + 1
           /\ streak = 0

C2_Witness ==
    /\ ParseFailed
    /\ streak >= 2
    /\ pre.stepIndex > 0
    /\ state.stepIndex = pre.stepIndex

(* C3: reset in any state gives cursor 0, an empty lead record, status     *)
(* collecting and the two opening messages: the state the component        *)
(* starts in.                                                              *)
C3_ResetIsInit ==
    AfterReset =>
        /\ state.stepIndex = 0
        /\ state.lead = EmptyLead
        /\ state.status = "collecting"
        /\ state.messages =
               <<initialAgentMessage, questionForStep(baseSteps[1], {})>>
        /\ state = InitialState
        /\ view = InitialState

C3_Witness ==
    /\ AfterReset
    /\ pre.status = "complete"
    /\ pre.messages[Len(pre.messages)].content = Acknowledgement
    /\ state = InitialState

(* C4: a non-blank submit while complete appends the user's message and    *)
(* the fixed acknowledgement, and leaves the lead record, the cursor and   *)
(* the status alone; no parse contract runs and the insights are not       *)
(* recomputed.                                                             *)
C4_SubmitWhileCompleteOnlyLogs ==
    SubmitWhileComplete =>
        /\ state.messages =
               pre.messages \o
               <<userMessage(Trimmed), agentMessage(Acknowledgement, {}, {"info"})>>
        /\ state.lead = pre.lead
        /\ state.stepIndex = pre.stepIndex
        /\ state.status = pre.status
        /\ ~last.parsed
        /\ ~recomputed
        /\ insights = evaluateLead(pre.lead)

C4_Witness ==
    /\ SubmitWhileComplete
    /\ last.value = <<Space, "a">>
    /\ Len(state.messages) = Len(pre.messages) + 2

\* The follow-up of the step's own result, as the message it is logged as.
OwnFollowUp ==
    IF PreResult.followUp = {} THEN <<>>
    ELSE <<agentMessage(CHOOSE f \in PreResult.followUp : TRUE, {}, {})>>

(* C5: a successful submit at a cursor k < N-1 gives cursor k+1, the old   *)
(* record overridden by the step's updates, status collecting, and a log  *)
(* extended by the user's message, the step's follow-up exactly when the  *)
(* result carries one, and the question of step k+1.                      *)
C5_SuccessAdvances ==
    (ParseSucceeded /\ pre.stepIndex < N - 1) =>
        /\ state.stepIndex = pre.stepIndex + 1
        /\ state.lead = Spread(pre.lead, PreResult.updates)
        /\ \A f \in DOMAIN PreResult.updates : state.lead[f] = PreResult.updates[f]
        /\ \A f \in (DOMAIN pre.lead) \ (DOMAIN PreResult.updates) :
               state.lead[f] = pre.lead[f]
        /\ state.status = "collecting"
        /\ state.messages =
               pre.messages \o <<userMessage(Trimmed)>> \o OwnFollowUp \o
               <<questionForStep(baseSteps[pre.stepIndex + 2], {pre.stepIndex + 1})>>
        /\ Len(Logged) = (IF PreResult.followUp = {} THEN 2 ELSE 3)

C5_Witness ==
    /\ ParseSucceeded
    /\ pre.stepIndex < N - 1
    /\ PreResult.followUp # {}
    /\ last.value # Trimmed
    /\ Len(Logged) = 3
    /\ Logged[2].content = <<"followUp:company">>
    /\ state.stepIndex = pre.stepIndex + 1

(* C6: a submit whose parse fails extends the log by exactly three         *)
(* messages: the user's message, an agent message tagged info with the    *)
(* retry text, and the question of the same step.                          *)
C6_FailureLogsThree ==
    ParseFailed =>
        /\ LogExtends
        /\ Len(Logged) = 3
        /\ Logged[1] = userMessage(Trimmed)
        /\ Logged[2].sender = "agent"
        /\ Logged[2].meta = {"info"}
        /\ Logged[2].content = PreResult.retryMessage
        /\ Logged[3] = questionForStep(PreStep, {pre.stepIndex})
        /\ Logged[3].meta = {"question"}

C6_Witness ==
    /\ ParseFailed
    /\ pre.stepIndex = 1
    /\ Len(Logged) = 3
    /\ Logged[2].content = <<"retry:email">>
    /\ Logged[3].content = <<"question:email">>

(* C7: the successful submit at the last step extends the log by the       *)
(* user's message, the step's own follow-up if any, the closing follow-up, *)
(* the summary tagged summary and the closing prompt; no question is       *)
(* logged after it and the closing prompt is the last message.             *)
C7_LastStepLogsClosing ==
    (ParseSucceeded /\ pre.stepIndex = N - 1) =>
        /\ LogExtends
        /\ Logged =
               <<userMessage(Trimmed)>> \o OwnFollowUp \o
               <<agentMessage(ClosingFollowUp, {}, {}),
                 agentMessage(renderSummary(Spread(pre.lead, PreResult.updates)),
                              {}, {"summary"}),
                 agentMessage(ClosingPrompt, {}, {})>>
        /\ \A i \in 1..Len(Logged) : Logged[i].meta # {"question"}
        /\ state.messages[Len(state.messages)].content = ClosingPrompt
        /\ state.messages[Len(state.messages) - 1].meta = {"summary"}

C7_Witness ==
    /\ ParseSucceeded
    /\ pre.stepIndex = N - 1
    /\ PreResult.followUp # {}
    /\ Len(Logged) = 5
    /\ state.messages[Len(state.messages)].content = ClosingPrompt

(* C8, as claimed: a blank submit while collecting is handled as a failure *)
(* of the active step: a retry message is logged and the cursor stays.     *)
C8_BlankSubmitRetries ==
    (AfterSubmit /\ Trimmed = <<>> /\ pre.status = "collecting") =>
        /\ state.stepIndex = pre.stepIndex
        /\ Len(Logged) >= 1
        /\ \E i \in 1..Len(Logged) :
               Logged[i].sender = "agent" /\ Logged[i].meta = {"info"}

(* C8, amended: a blank submit is ignored: the handler dispatches nothing  *)
(* and runs no parse contract, so nothing is logged and the cursor, the    *)
(* lead record and the status stay as they were; the step is not skipped.  *)
C8_BlankSubmitIgnored ==
    (last.op = "submit" /\ Trimmed = <<>>) =>
        /\ Idle
        /\ state = pre
        /\ view = pre
        /\ state.messages = pre.messages
        /\ state.stepIndex = pre.stepIndex
        /\ ~last.parsed
        /\ last.outcome = "ignored"

C8_Witness ==
    /\ last.op = "submit"
    /\ last.value = <<Space>>
    /\ pre.status = "collecting"
    /\ pre.stepIndex = 1
    /\ state = pre

(* C9: a conversation that reaches complete hands the persistence          *)
(* collaborator the final lead record and the score evaluateLead gives for *)
(* it, exactly once until the next reset however many submits follow, and  *)
(* never while the status is collecting.                                   *)
C9_PersistedOncePerCompletion ==
    /\ calls <= 1
    /\ (calls = 0) <=> (lastCall = NoCall)
    /\ state.status = "collecting" => calls = 0
    /\ (Idle /\ state.status = "complete") =>
           /\ calls = 1
           /\ \A c \in lastCall :
                  /\ c.lead = state.lead
                  /\ c.score = evaluateLead(state.lead).score
    /\ (Idle /\ last.outcome = "completed") =>
           \A c \in lastCall : c.lead = Spread(pre.lead, PreResult.updates)

C9_Witness ==
    /\ SubmitWhileComplete
    /\ pre.messages[Len(pre.messages)].content = Acknowledgement
    /\ calls = 1
    /\ \E c \in lastCall :
          /\ c.lead = state.lead
          /\ Has(c.lead, "timeline")
          /\ c.score = 15

RECURSIVE ApplyAll(_, _)
ApplyAll(s, actions) ==
    IF actions = <<>> THEN s
    ELSE ApplyAll(reducer(s, Head(actions)), Tail(actions))

\* A call of the collaborator failed: the last one, or an earlier one that
\* left no entry in the stored list.
PersistenceFailed ==
    \/ \E c \in lastCall : c.fault # "none"
    \/ clock > Len(stored)

(* C10: when the persistence collaborator fails, the conversation is what  *)
(* the handler's actions make it, as when the call succeeds: no exception  *)
(* leaves the effect, nothing is logged for the failure, and the submits   *)
(* and resets that follow do what they always do.                          *)
C10_PersistenceFailureHarmless ==
    PersistenceFailed =>
        /\ ~uncaught
        /\ AfterSubmit =>
               state = ApplyAll(pre, handleSubmit(pre, last.value).dispatched)
        /\ AfterReset => state = InitialState
        /\ (Idle /\ last.outcome = "completed") =>
               /\ state.status = "complete"
               /\ state.messages[Len(state.messages)].content = ClosingPrompt

C10_Witness ==
    /\ SubmitWhileComplete
    /\ \E c \in lastCall : c.fault = "write"
    /\ stored = <<>>
    /\ clock = 1
    /\ state.messages[Len(state.messages)].content = Acknowledgement

\* The suggestions a message carries, as the list that is shown.
Carried(m) == IF m.suggestions = {} THEN <<>> ELSE CHOOSE x \in m.suggestions : TRUE

\* The place of the last agent message of a log, 0 when it has none.
LastAgentIndex(messages) ==
    LET agents == { i \in 1..Len(messages) : messages[i].sender = "agent" } IN
    IF agents = {} THEN 0
    ELSE CHOOSE i \in agents : \A j \in agents : j <= i

(* C11: in every state the suggestions shown are those attached to the     *)
(* last agent message of the log, and none when it carries none; the user *)
(* messages after it change nothing.                                       *)
C11_SuggestionsOfLastAgentMessage ==
    /\ LastAgentIndex(state.messages) > 0 =>
           activeSuggestions(state.messages) =
               Carried(state.messages[LastAgentIndex(state.messages)])
    /\ LastAgentIndex(state.messages) = 0 => activeSuggestions(state.messages) = <<>>
    /\ activeSuggestions(view.messages) =
           (IF LastAgentIndex(view.messages) = 0 THEN <<>>
            ELSE Carried(view.messages[LastAgentIndex(view.messages)]))

C11_Witness ==
    /\ state.messages[Len(state.messages)].sender = "user"
    /\ state.stepIndex = 2
    /\ LastAgentIndex(state.messages) = Len(state.messages) - 1
    /\ activeSuggestions(state.messages) = << <<"7">>, <<"a">> >>

---------------------------------------------------------------------------
(* The recap, read as text. *)

RECURSIVE Count(_, _)
Count(text, token) ==
    IF text = <<>> THEN 0
    ELSE (IF Head(text) = token THEN 1 ELSE 0) + Count(Tail(text), token)

\* The first place of a token in a text, 0 when it is not there.
Pos(text, token) ==
    IF Count(text, token) = 0 THEN 0
    ELSE CHOOSE i \in 1..Len(text) :
            text[i] = token /\ \A j \in 1..(i - 1) : text[j] # token

RecapLogged ==
    /\ state.messages # <<>>
    /\ state.messages[1].meta = {"summary"}

RecapText == state.messages[1].content

\* The label each line starts with, in the order of the lines.
LinePrefixes ==
    <<"* ", "* Goal: ", "* Challenge: ", "* Budget comfort zone: ",
      "* Budget comfort zone: ~$", "* Timeline: ", "* Contact: ">>

\* Whether the record has what the line with that label is keyed on.
LineDue(lead, i) ==
    CASE i = 1 -> Has(lead, "companyName")
      [] i = 2 -> Has(lead, "primaryGoal")
      [] i = 3 -> Has(lead, "painPoints")
      [] i = 4 -> Has(lead, "budgetRange")
      [] i = 5 -> ~Has(lead, "budgetRange") /\ Has(lead, "budgetValue")
      [] i = 6 -> Has(lead, "timeline")
      [] i = 7 -> Has(lead, "contactName")

LinesDue(lead) == Cardinality({ i \in 1..7 : LineDue(lead, i) })

Placeholders == {"unknown vertical", "email pending"}

\* One line per populated key, in the fixed order, and none for an absent one.
LinesInOrder ==
    /\ RecapText[1] = "Quick recap:"
    /\ RecapText[2] = "\n"
    /\ \A i \in 1..7 :
           Count(RecapText, LinePrefixes[i]) = (IF LineDue(state.lead, i) THEN 1 ELSE 0)
    /\ \A i, j \in 1..7 :
           (i < j /\ LineDue(state.lead, i) /\ LineDue(state.lead, j)) =>
               Pos(RecapText, LinePrefixes[i]) < Pos(RecapText, LinePrefixes[j])
    /\ Count(RecapText, "\n") = 1 + Max(0, LinesDue(state.lead) - 1)
    /\ Count(RecapText, "undefined") = 0

\* The value of a text field is in the recap.
Shows(f) == Count(RecapText, "value:" \o f) = 1

(* C12, as claimed: the recap has one line per populated field in the      *)
(* fixed order, and an absent field contributes no text: no placeholder.   *)
C12_AbsentFieldsOmitted ==
    RecapLogged =>
        /\ LinesInOrder
        /\ \A t \in Placeholders : Count(RecapText, t) = 0

(* C12, amended: the recap has one line per populated key (companyName,    *)
(* primaryGoal, painPoints, budgetRange or else budgetValue, timeline,     *)
(* contactName) in that order and no line for an absent key; inside the    *)
(* company line an absent industry reads "unknown vertical" and inside the *)
(* contact line an absent contactEmail reads "email pending"; industry and *)
(* contactEmail show nothing when the key of their line is absent.         *)
C12_LinesPerPopulatedKey ==
    RecapLogged =>
        /\ LinesInOrder
        /\ Count(RecapText, "unknown vertical") =
               (IF Has(state.lead, "companyName") /\ ~Has(state.lead, "industry")
                THEN 1 ELSE 0)
        /\ Count(RecapText, "email pending") =
               (IF Has(state.lead, "contactName") /\ ~Has(state.lead, "contactEmail")
                THEN 1 ELSE 0)
        /\ \A f \in {"companyName", "primaryGoal", "painPoints", "budgetRange",
                      "timeline", "contactName"} :
               Shows(f) <=> Has(state.lead, f)
        /\ Shows("industry") <=>
               (Has(state.lead, "companyName") /\ Has(state.lead, "industry"))
        /\ Shows("contactEmail") <=>
               (Has(state.lead, "contactName") /\ Has(state.lead, "contactEmail"))
        /\ Count(RecapText, ",") =
               (IF LineDue(state.lead, 5) THEN 1 ELSE 0)

C12_Witness ==
    /\ RecapLogged
    /\ DOMAIN state.lead = SummaryFields \ {"industry", "budgetRange"}
    /\ Count(RecapText, "unknown vertical") = 1
    /\ Count(RecapText, "\n") = 6
    /\ Pos(RecapText, "* Goal: ") < Pos(RecapText, "* Contact: ")

---------------------------------------------------------------------------
(* C13: across every submit the cursor never decreases: it is unchanged by *)
(* a failed submit, a blank submit and a submit while complete, and one    *)
(* more after a successful submit while collecting.                        *)
C13_CursorNeverDecreases ==
    /\ last.op = "submit" => state.stepIndex >= pre.stepIndex
    /\ last.op = "submit" => state.stepIndex <= pre.stepIndex + 1
    /\ ParseFailed => state.stepIndex = pre.stepIndex
    /\ (AfterSubmit /\ Trimmed = <<>>) => state.stepIndex = pre.stepIndex
    /\ SubmitWhileComplete => state.stepIndex = pre.stepIndex
    /\ ParseSucceeded => state.stepIndex = pre.stepIndex + 1

C13_Witness ==
    /\ ParseSucceeded
    /\ pre.stepIndex = N - 1
    /\ state.stepIndex = N
    /\ streak = 0
    /\ \E k \in 1..Len(pre.messages) : IsRetryMessage(pre.messages[k])

(* C14: the log is append-only: while a submit is handled and after it the *)
(* log before the submit is a prefix of the log, message by message, and   *)
(* only a reset replaces the log, by the opening two messages.             *)
C14_LogAppendOnly ==
    /\ last.op = "submit" =>
           /\ Len(state.messages) >= Len(pre.messages)
           /\ \A k \in 1..Len(pre.messages) : state.messages[k] = pre.messages[k]
    /\ AfterReset => state.messages = InitialState.messages
    /\ (last.op = "reset" /\ queue # <<>>) => state.messages = pre.messages

C14_Witness ==
    /\ AfterSubmit
    /\ last.outcome = "completed"
    /\ Len(pre.messages) >= 7
    /\ Len(Logged) >= 4
    /\ SubSeq(state.messages, 1, Len(pre.messages)) = pre.messages

(* C15: the lead is empty at the start and after a reset until a submit    *)
(* succeeds; across a submit no populated field is lost and no populated   *)
(* value is cleared; and the lead changes only by a successful submit.     *)
C15_FieldsNeverCleared ==
    /\ wins = 0 => state.lead = EmptyLead
    /\ last.op = "submit" => DOMAIN pre.lead \subseteq DOMAIN state.lead
    /\ \A f \in (DOMAIN state.lead) \ {"timelineWeeks"} : state.lead[f] # <<>>
    /\ (last.op = "submit" /\ last.outcome \notin {"advanced", "completed"}) =>
           state.lead = pre.lead
    /\ (AfterSubmit /\ ~ParseSucceeded) => state.lead = pre.lead
    /\ ParseSucceeded =>
           DOMAIN state.lead = DOMAIN pre.lead \cup DOMAIN PreResult.updates

C15_Witness ==
    /\ ParseSucceeded
    /\ pre.stepIndex = N - 1
    /\ DOMAIN pre.lead = {"companyName", "contactEmail"}
    /\ DOMAIN state.lead = {"companyName", "contactEmail", "timeline", "timelineWeeks"}
    /\ state.lead["companyName"] = pre.lead["companyName"]

---------------------------------------------------------------------------
\* The question message of step i (0-based), written out from the step.
QuestionOf(i) ==
    LET step == baseSteps[i + 1] IN
    [sender |-> "agent",
     content |->
         IF i = 0 \/ step.helper = {} THEN step.question
         ELSE step.question \o <<"\n">> \o (CHOOSE h \in step.helper : TRUE),
     suggestions |-> step.suggestions,
     meta |-> {"question"}]

(* C16: every question message in the log is the question of a step: for  *)
(* step 0 (opening, after reset, re-issued after a failure) the question   *)
(* text alone; for a step i > 0 (on advance, re-issued) the question, a    *)
(* newline and the helper when the step has a helper, else the question    *)
(* alone; with the step's suggestions and the tag question.                *)
C16_QuestionText ==
    /\ QuestionOf(0).content = <<"question:company">>
    /\ QuestionOf(1).content = <<"question:email">>
    /\ QuestionOf(2).content = <<"question:timeline", "\n", "helper:timeline">>
    /\ \A k \in 1..Len(state.messages) :
           state.messages[k].meta = {"question"} =>
               \E i \in 0..(N - 1) : state.messages[k] = QuestionOf(i)
    /\ state.messages[2] = QuestionOf(0)
    /\ ParseFailed => Logged[3] = QuestionOf(pre.stepIndex)
    /\ (ParseSucceeded /\ pre.stepIndex < N - 1) =>
           Logged[Len(Logged)] = QuestionOf(pre.stepIndex + 1)
    /\ (ParseSucceeded /\ pre.stepIndex = N - 1) =>
           \A k \in 1..Len(Logged) : Logged[k].meta # {"question"}

C16_Witness ==
    /\ AfterSubmit
    /\ state.stepIndex = 2
    /\ state.messages[Len(state.messages)].content =
           <<"question:timeline", "\n", "helper:timeline">>
    /\ \E k \in 3..Len(state.messages) :
           /\ state.messages[k].meta = {"question"}
           /\ state.messages[k].content = <<"question:company">>
    /\ \E k \in 3..Len(state.messages) :
           state.messages[k].content = <<"question:email">>

---------------------------------------------------------------------------
(* C17, as claimed: in every state the reducer produces the cursor is in   *)
(* 0..N and the status is complete exactly when the cursor is N.           *)
C17_CompleteIffCursorAtEnd ==
    /\ state.stepIndex \in 0..N
    /\ state.status = "complete" <=> state.stepIndex = N

(* C17, amended: in every state the reducer produces the cursor is in 0..N *)
(* and a complete status has the cursor at N; the status is complete       *)
(* exactly when the cursor is N in every rendered state; a cursor at N     *)
(* with status collecting is the state between the ADVANCE and the         *)
(* COMPLETE of the last step's submit, with COMPLETE next to be reduced.   *)
C17_CompleteIffCursorAtEndWhenRendered ==
    /\ state.stepIndex \in 0..N
    /\ state.status = "complete" => state.stepIndex = N
    /\ Idle => (state.status = "complete" <=> state.stepIndex = N)
    /\ view.stepIndex \in 0..N
    /\ view.status = "complete" <=> view.stepIndex = N
    /\ (state.stepIndex = N /\ state.status = "collecting") =>
           /\ queue # <<>>
           /\ Head(queue).type = "COMPLETE"
           /\ last.outcome = "completed"
           /\ pre.stepIndex = N - 1

C17_Witness ==
    /\ state.stepIndex = N
    /\ state.status = "collecting"
    /\ queue # <<>>
    /\ Head(queue).type = "COMPLETE"
    /\ view.stepIndex = N - 1

---------------------------------------------------------------------------
\* The suggestions of step i as the list the view shows.
SuggestionsOf(i) ==
    IF baseSteps[i + 1].suggestions = {} THEN <<>>
    ELSE CHOOSE x \in baseSteps[i + 1].suggestions : TRUE

(* C19: when a submit or a reset is through: while collecting the last     *)
(* message of the log is the question of the step at the cursor and the    *)
(* suggestions shown are that step's, also after a failed submit; once     *)
(* complete the last agent message has no suggestions and none are shown.  *)
C19_SuggestionsFollowCursor ==
    /\ (Idle /\ state.status = "collecting") =>
           /\ state.stepIndex \in 0..(N - 1)
           /\ state.messages[Len(state.messages)] = QuestionOf(state.stepIndex)
           /\ activeSuggestions(state.messages) = SuggestionsOf(state.stepIndex)
    /\ (Idle /\ state.status = "complete") =>
           /\ state.messages[LastAgentIndex(state.messages)].suggestions = {}
           /\ activeSuggestions(state.messages) = <<>>
    /\ SuggestionsOf(0) = <<>>
    /\ SuggestionsOf(1) = << <<"7", "@", "7">> >>
    /\ SuggestionsOf(2) = << <<"7">>, <<"a">> >>

C19_Witness ==
    /\ ParseFailed
    /\ pre.stepIndex = 1
    /\ state.status = "collecting"
    /\ state.messages[Len(state.messages) - 2].sender = "user"
    /\ activeSuggestions(state.messages) = << <<"7", "@", "7">> >>

---------------------------------------------------------------------------
(* C20: when the last step's submit is through, the record the handler    *)
(* rendered the summary from is the lead of the state, which is the old   *)
(* lead merged with the last step's updates, and it is the record handed  *)
(* to upsertLeadInStorage; the logged summary is the rendering of it.     *)
C20_SummaryOfStateLead ==
    (AfterSubmit /\ last.outcome = "completed") =>
        /\ state.status = "complete"
        /\ last.summaryOf = {state.lead}
        /\ state.lead = Spread(pre.lead, PreResult.updates)
        /\ lastCall # NoCall
        /\ \A c \in lastCall : c.lead = state.lead
        /\ state.messages[Len(state.messages) - 1].meta = {"summary"}
        /\ state.messages[Len(state.messages) - 1].content = renderSummary(state.lead)

C20_Witness ==
    /\ AfterSubmit
    /\ last.outcome = "completed"
    /\ last.summaryOf = {state.lead}
    /\ DOMAIN state.lead = {"companyName", "contactEmail", "timeline", "timelineWeeks"}
    /\ \E c \in lastCall : c.lead = state.lead /\ c.notified
    /\ Count(state.messages[Len(state.messages) - 1].content, "* Timeline: ") = 1

---------------------------------------------------------------------------
\* The field step i's own contract populates when it accepts a text.
OwnField(i) == <<"companyName", "contactEmail", "timeline">>[i + 1]

ClosingPromptsLogged ==
    Cardinality({ k \in 1..Len(state.messages) :
                    state.messages[k].content = ClosingPrompt })

(* C18, as claimed: with two submits handled on one snapshot, every        *)
(* ADVANCE reduced at cursor k carries the updates of step k's own         *)
(* contract, no step is passed without its own parse succeeding, the       *)
(* cursor never exceeds N and the completion messages are logged at most   *)
(* once.                                                                   *)
C18_StaleSubmitsSerialise ==
    /\ (queue # <<>> /\ Head(queue).type = "ADVANCE" /\ state.stepIndex < N) =>
           OwnField(state.stepIndex) \in DOMAIN Head(queue).leadUpdates
    /\ \A k \in 0..(N - 1) :
           state.stepIndex > k => OwnField(k) \in DOMAIN state.lead
    /\ state.stepIndex <= N
    /\ ClosingPromptsLogged <= 1

---------------------------------------------------------------------------
\* The stored list runs from the newest entry to the oldest.
NewestFirst ==
    \A j, k \in 1..Len(stored) : j < k => stored[j].storedAt > stored[k].storedAt

\* The entry a call builds from its arguments and the time of the call.
PayloadOf(c, now) == [lead |-> c.lead, score |-> c.score, storedAt |-> now]

\* A call that reaches setItem leaves the new entry first and the old list
\* behind it as far as the cap allows; any other call leaves the list alone.
CallPrepends ==
    calls' = calls + 1 =>
        LET c == CHOOSE x \in lastCall' : TRUE IN
        IF c.fault \in {"none", "dispatch"}
        THEN /\ Len(stored') = Min(25, Len(stored) + 1)
             /\ stored'[1] = PayloadOf(c, clock')
             /\ \A k \in 2..Len(stored') : stored'[k] = stored[k - 1]
        ELSE stored' = stored

(* C21: after any sequence of persistence calls the stored history holds   *)
(* at most 25 entries, newest first; a successful call puts its entry      *)
(* first and keeps the previous list behind it up to 25 entries in all,    *)
(* so only the oldest entries are dropped.                                 *)
C21_HistoryCappedNewestFirst ==
    /\ [](Len(stored) <= 25 /\ NewestFirst)
    /\ [][CallPrepends]_vars

C21_Witness ==
    /\ calls = 3
    /\ \E c \in lastCall : c.fault = "none" /\ stored[1] = PayloadOf(c, clock)
    /\ Len(stored) = 25
    /\ stored[1].storedAt = 28
    /\ stored[25].storedAt = 4

===========================================================================
